---- MODULE Spec2Model ----
(***************************************************************************)
(* wrapper.js: the command-line adapter around notamDecoder.decode.        *)
(* One run of the script is modelled statement by statement; the file      *)
(* system and the decoder are inputs fixed when the process starts.        *)
(***************************************************************************)
EXTENDS Integers, Sequences, FiniteSets, TLC

\* ---- bounds -------------------------------------------------------------
\* numbers that occur inside decoded and thrown values are 0..MaxNum
MaxNum == 1
\* invocations per behaviour of SpecRuns
MaxRuns == 2

\* ---- JavaScript values --------------------------------------------------
\* A value is a record [t, n, s, el]: t the kind, n a number, s a string as a
\* sequence of chunks (the characters ", \ and newline are always a chunk of
\* their own), el the children (elements, property values, ...).
Val(t, n, s, el) == [t |-> t, n |-> n, s |-> s, el |-> el]

Undef == Val("undefined", 0, <<>>, <<>>)
Null == Val("null", 0, <<>>, <<>>)
Num(n) == Val("number", n, <<>>, <<>>)
BigIntV(n) == Val("bigint", n, <<>>, <<>>)
Str(chunks) == Val("string", 0, chunks, <<>>)
Func == Val("function", 0, <<>>, <<>>)
\* an array literal [el[1], ..., el[k]]
Arr(els) == Val("array", 0, <<>>, els)
\* a plain object {keys[1]: vals[1], ...}; keys are chunks without specials
Obj(keys, vals) == Val("object", 0, keys, vals)
\* a plain object o with o.self = o
Circular == Val("circular", 0, <<"self">>, <<>>)
\* new Error(message) with the given name
ErrorObj(name, message) == Val("error", 0, <<>>, <<Str(name), Str(message)>>)
\* Object.create(null): no toString at all
NoProto == Val("noproto", 0, <<>>, <<>>)

\* completion records of a call: it returns v or it throws v
Normal(v) == [c |-> "normal", v |-> v]
Throw(v) == [c |-> "throw", v |-> v]

\* ---- strings ------------------------------------------------------------
RECURSIVE Flat(_)
\* the text of a chunk sequence
Flat(chunks) ==
    IF chunks = <<>> THEN "" ELSE Head(chunks) \o Flat(Tail(chunks))

Digit(d) ==
    CASE d = 0 -> "0" [] d = 1 -> "1" [] d = 2 -> "2" [] d = 3 -> "3"
      [] d = 4 -> "4" [] d = 5 -> "5" [] d = 6 -> "6" [] d = 7 -> "7"
      [] d = 8 -> "8" [] d = 9 -> "9"

RECURSIVE NumStr(_)
\* Number.prototype.toString for a natural number
NumStr(n) == IF n < 10 THEN Digit(n) ELSE NumStr(n \div 10) \o Digit(n % 10)

\* JSON string escaping of one chunk (QuoteJSONString)
Escape(ch) ==
    CASE ch = "\"" -> "\\\""
      [] ch = "\\" -> "\\\\"
      [] ch = "\n" -> "\\n"
      [] OTHER -> ch

RECURSIVE EscapeAll(_)
EscapeAll(chunks) ==
    IF chunks = <<>> THEN ""
    ELSE Escape(Head(chunks)) \o EscapeAll(Tail(chunks))

Quote(chunks) == "\"" \o EscapeAll(chunks) \o "\""

\* ---- JSON.stringify -----------------------------------------------------
CircularMessage ==
    <<"Converting circular structure to JSON", "\n",
      "    --> starting at object with constructor 'Object'", "\n",
      "    --- property 'self' closes the circle">>
BigIntMessage == <<"Do not know how to serialize a BigInt">>

\* results of serialising one value: text, no text (undefined), or a throw
SerStr(out) == [k |-> "str", out |-> out, err |-> <<>>]
SerUndef == [k |-> "undef", out |-> "", err |-> <<>>]
SerThrow(msg) == [k |-> "throw", out |-> "", err |-> msg]

RECURSIVE Ser(_)
RECURSIVE SerElements(_, _)
RECURSIVE SerProperties(_, _, _)

\* SerializeJSONProperty
Ser(v) ==
    CASE v.t = "undefined" -> SerUndef
      [] v.t = "function" -> SerUndef
      [] v.t = "null" -> SerStr("null")
      [] v.t = "number" -> SerStr(NumStr(v.n))
      [] v.t = "bigint" -> SerThrow(BigIntMessage)
      [] v.t = "string" -> SerStr(Quote(v.s))
      [] v.t = "array" -> SerElements(v.el, TRUE)
      [] v.t = "object" -> SerProperties(v.s, v.el, TRUE)
      [] v.t = "circular" -> SerThrow(CircularMessage)
      \* no enumerable own data properties
      [] v.t = "error" -> SerStr("{}")
      [] v.t = "noproto" -> SerStr("{}")

\* SerializeJSONArray: an element without text becomes null
SerElements(els, first) ==
    IF els = <<>> THEN SerStr(IF first THEN "[]" ELSE "]")
    ELSE LET h == Ser(Head(els))
             r == SerElements(Tail(els), FALSE)
             txt == IF h.k = "undef" THEN "null" ELSE h.out
         IN  IF h.k = "throw" THEN h
             ELSE IF r.k = "throw" THEN r
             ELSE SerStr((IF first THEN "[" ELSE ",") \o txt \o r.out)

\* SerializeJSONObject: a property without text is left out
SerProperties(keys, vals, first) ==
    IF keys = <<>> THEN SerStr(IF first THEN "{}" ELSE "}")
    ELSE LET h == Ser(Head(vals))
             r == SerProperties(Tail(keys), Tail(vals), first /\ h.k = "undef")
         IN  IF h.k = "throw" THEN h
             ELSE IF r.k = "throw" THEN r
             ELSE IF h.k = "undef" THEN r
             ELSE SerStr((IF first THEN "{" ELSE ",")
                         \o Quote(<<Head(keys)>>) \o ":" \o h.out \o r.out)

\* JSON.stringify(v) as a completion: the text, undefined, or a TypeError.
\* The text is returned as one chunk; it is only ever printed.
JSONstringify(v) ==
    LET r == Ser(v)
    IN  CASE r.k = "str" -> Normal(Str(<<r.out>>))
          [] r.k = "undef" -> Normal(Undef)
          [] r.k = "throw" -> Throw(ErrorObj(<<"TypeError">>, r.err))

\* ---- e.toString() -------------------------------------------------------
RECURSIVE toString(_)
RECURSIVE Join(_, _)

\* the method call v.toString() as a completion
toString(v) ==
    CASE v.t = "undefined" ->
           Throw(ErrorObj(<<"TypeError">>,
               <<"Cannot read properties of undefined (reading 'toString')">>))
      [] v.t = "null" ->
           Throw(ErrorObj(<<"TypeError">>,
               <<"Cannot read properties of null (reading 'toString')">>))
      [] v.t = "noproto" ->
           Throw(ErrorObj(<<"TypeError">>, <<"e.toString is not a function">>))
      [] v.t = "string" -> Normal(v)
      [] v.t = "number" -> Normal(Str(<<NumStr(v.n)>>))
      [] v.t = "bigint" -> Normal(Str(<<NumStr(v.n)>>))
      [] v.t = "function" -> Normal(Str(<<"() => {}">>))
      [] v.t = "array" -> Normal(Str(Join(v.el, TRUE)))
      [] v.t = "object" -> Normal(Str(<<"[object Object]">>))
      [] v.t = "circular" -> Normal(Str(<<"[object Object]">>))
      \* Error.prototype.toString
      [] v.t = "error" ->
           LET name == v.el[1].s
               msg == v.el[2].s
           IN  Normal(Str(IF msg = <<>> THEN name
                          ELSE IF name = <<>> THEN msg
                          ELSE name \o <<": ">> \o msg))

\* Array.prototype.join(","): null and undefined elements give no text
Join(els, first) ==
    IF els = <<>> THEN <<>>
    ELSE LET h == Head(els)
             c == toString(h)
             txt == IF h.t \in {"undefined", "null"} \/ c.c = "throw"
                       \/ c.v.t # "string"
                    THEN <<>> ELSE c.v.s
         IN  (IF first THEN <<>> ELSE <<",">>) \o txt \o Join(Tail(els), FALSE)

\* ---- the file system ----------------------------------------------------
TextA == <<"A0001/24 NOTAMN", "\n", "Q) OIIX/QMRLC", "\n", "E) RWY 11L/29R CLSD">>
TextB == <<"not a notam">>

\* fs.readFileSync(path, 'utf8') as a completion
readFileSync(path) ==
    CASE path.t # "string" ->
           Throw(ErrorObj(<<"TypeError">>,
               <<"The ", "\"", "path", "\"",
                 " argument must be of type string or an instance of Buffer or URL. Received ",
                 IF path.t = "undefined" THEN "undefined" ELSE path.t>>))
      [] path = Str(<<"a.txt">>) -> Normal(Str(TextA))
      [] path = Str(<<"b.txt">>) -> Normal(Str(TextB))
      [] path = Str(<<"dir">>) ->
           Throw(ErrorObj(<<"Error">>,
               <<"EISDIR: illegal operation on a directory, read">>))
      [] OTHER ->
           Throw(ErrorObj(<<"Error">>,
               <<"ENOENT: no such file or directory, open '">> \o path.s \o <<"'">>))

Texts == {Str(TextA), Str(TextB)}

\* ---- the inputs ---------------------------------------------------------
\* process.argv: the runtime, the script, then the arguments
ArgLists ==
    { <<"node", "wrapper.js">> \o a :
        a \in { <<>>, <<"">>, <<"a.txt">>, <<"b.txt">>, <<"missing.txt">>,
                <<"dir">>, <<"a.txt", "b.txt">> } }

Numbers == { Num(n) : n \in 0..MaxNum }

\* what notamDecoder.decode may return
DecodedValues ==
    { Undef, Null, Func, Circular, BigIntV(MaxNum), Str(<<"say ", "\"", "hi", "\"">>),
      Arr(<<Num(0), Undef>>) }
    \cup { Obj(<<"id", "raw">>, <<n, Undef>>) : n \in Numbers }

\* what notamDecoder.decode may throw
ThrownValues ==
    { Undef, Null, NoProto, Str(<<"bad ", "\\", "notam">>),
      ErrorObj(<<"Error">>, <<"Invalid NOTAM: missing ", "\"", "Q)", "\"">>),
      ErrorObj(<<"RangeError">>, <<>>) }
    \cup Numbers

DecodeOutcomes ==
    { Normal(v) : v \in DecodedValues } \cup { Throw(e) : e \in ThrownValues }

\* the decoders: pure functions from the text to an outcome
Decoders == [Texts -> DecodeOutcomes]

\* ---- the process --------------------------------------------------------
VARIABLES
    argv,        \* process.argv
    decoder,     \* the behaviour of notamDecoder.decode in this installation
    pc,          \* the statement about to run
    inputPath,   \* const inputPath
    rawNotam,    \* const rawNotam
    decoded,     \* const decoded
    caught,      \* the value in flight to, or bound by, catch (e)
    stdout,      \* the text written to standard output
    stderr,      \* the text written to standard error
    writes,      \* the number of writes to the two streams
    exitCode,    \* the exit status register
    exitWrites,  \* the number of times the exit status was set
    uncaught,    \* the runtime reported an uncaught exception
    reads,       \* the completions of the readFileSync calls, in order
    decodes,     \* the decode calls, in order: [arg, result]
    log,         \* the statements executed, in order
    runs,        \* the number of this invocation
    seen         \* earlier invocations: <<argv, <<stdout, stderr, exitCode>>>>

vars ==
    <<argv, decoder, pc, inputPath, rawNotam, decoded, caught, stdout, stderr,
      writes, exitCode, exitWrites, uncaught, reads, decodes, log, runs, seen>>

\* a process at its first statement
Fresh(a) ==
    /\ argv = a
    /\ pc = "start"
    /\ inputPath = Undef
    /\ rawNotam = Undef
    /\ decoded = Undef
    /\ caught = Undef
    /\ stdout = ""
    /\ stderr = ""
    /\ writes = 0
    /\ exitCode = 0
    /\ exitWrites = 0
    /\ uncaught = FALSE
    /\ reads = <<>>
    /\ decodes = <<>>
    /\ log = <<>>

Init ==
    /\ \E a \in ArgLists : Fresh(a)
    /\ decoder \in Decoders
    /\ runs = 1
    /\ seen = {}

\* ---- runtime services ---------------------------------------------------
\* the text console.log / console.error print for one argument
Format(v) ==
    CASE v.t = "string" -> Flat(v.s)
      [] v.t = "undefined" -> "undefined"
      [] v.t = "null" -> "null"
      [] v.t = "number" -> NumStr(v.n)

\* mutant of Falsy: if (inputPath === undefined)
FalsyUndefinedOnly(v) == v.t = "undefined"

\* the truthiness test of if (!v)
Falsy(v) ==
    \/ v.t \in {"undefined", "null"}
    \/ v.t = "string" /\ Flat(v.s) = ""
    \/ v.t = "number" /\ v.n = 0

\* process.argv[i], zero-based as in the script
ArgAt(a, i) ==
    IF i + 1 > Len(a) THEN Undef
    ELSE IF a[i + 1] = "" THEN Str(<<>>) ELSE Str(<<a[i + 1]>>)

\* what the runtime prints for an exception nobody caught
FatalReport(err, line) ==
    "wrapper.js:" \o NumStr(line) \o "\n\n" \o Format(toString(err).v)
        \o "\n    at Object.<anonymous> (wrapper.js:" \o NumStr(line) \o ")\n"

Io == <<stdout, stderr, writes>>
Exit == <<exitCode, exitWrites, uncaught>>
Locals == <<inputPath, rawNotam, decoded, caught>>
Calls == <<reads, decodes>>
Env == <<argv, decoder, runs, seen>>

\* ---- the statements of wrapper.js ---------------------------------------
\* lines 1-4: the two require calls and const inputPath = process.argv[2]
LoadModules ==
    /\ pc = "start"
    /\ inputPath' = ArgAt(argv, 2)
    /\ pc' = "check"
    /\ log' = Append(log, "start")
    /\ UNCHANGED <<rawNotam, decoded, caught, Io, Exit, Calls, Env>>

\* line 5: if (!inputPath)
CheckArgument ==
    /\ pc = "check"
    /\ pc' = IF Falsy(inputPath) THEN "missing" ELSE "read"
    /\ log' = Append(log, "check")
    /\ UNCHANGED <<Locals, Io, Exit, Calls, Env>>

\* mutant of MissingArgument: the report without process.exit(1), so the
\* script goes on into the try block
MissingArgumentNoExit ==
    /\ pc = "missing"
    /\ LET j == JSONstringify(Obj(<<"error">>, <<Str(<<"No input file provided">>)>>))
       IN  /\ stderr' = stderr \o Format(j.v) \o "\n"
           /\ writes' = writes + 1
    /\ pc' = "read"
    /\ log' = Append(log, "missing")
    /\ UNCHANGED <<Locals, stdout, Exit, Calls, Env>>

\* lines 6-7: report the missing argument and exit
MissingArgument ==
    /\ pc = "missing"
    /\ LET j == JSONstringify(Obj(<<"error">>, <<Str(<<"No input file provided">>)>>))
       IN  /\ stderr' = stderr \o Format(j.v) \o "\n"
           /\ writes' = writes + 1
    /\ exitCode' = 1
    /\ exitWrites' = exitWrites + 1
    /\ pc' = "exited"
    /\ log' = Append(log, "missing")
    /\ UNCHANGED <<Locals, stdout, uncaught, Calls, Env>>

\* mutant of ReadFile: a failed read is tried once more
ReadFileRetry ==
    /\ pc = "read"
    /\ LET c == readFileSync(inputPath)
       IN  /\ reads' = IF c.c = "normal" THEN Append(reads, c)
                       ELSE Append(Append(reads, c), c)
           /\ IF c.c = "normal"
              THEN /\ rawNotam' = c.v
                   /\ pc' = "decode"
                   /\ UNCHANGED caught
              ELSE /\ caught' = c.v
                   /\ pc' = "catch"
                   /\ UNCHANGED rawNotam
    /\ log' = Append(log, "read")
    /\ UNCHANGED <<inputPath, decoded, Io, Exit, decodes, Env>>

\* line 11: const rawNotam = fs.readFileSync(inputPath, 'utf8')
ReadFile ==
    /\ pc = "read"
    /\ LET c == readFileSync(inputPath)
       IN  /\ reads' = Append(reads, c)
           /\ IF c.c = "normal"
              THEN /\ rawNotam' = c.v
                   /\ pc' = "decode"
                   /\ UNCHANGED caught
              ELSE /\ caught' = c.v
                   /\ pc' = "catch"
                   /\ UNCHANGED rawNotam
    /\ log' = Append(log, "read")
    /\ UNCHANGED <<inputPath, decoded, Io, Exit, decodes, Env>>

\* line 12: const decoded = notamDecoder.decode(rawNotam)
Decode ==
    /\ pc = "decode"
    /\ LET c == decoder[rawNotam]
       IN  /\ decodes' = Append(decodes, [arg |-> rawNotam, result |-> c])
           /\ IF c.c = "normal"
              THEN /\ decoded' = c.v
                   /\ pc' = "print"
                   /\ UNCHANGED caught
              ELSE /\ caught' = c.v
                   /\ pc' = "catch"
                   /\ UNCHANGED decoded
    /\ log' = Append(log, "decode")
    /\ UNCHANGED <<inputPath, rawNotam, Io, Exit, reads, Env>>

\* mutant of PrintResult: console.error in place of console.log
PrintResultToStderr ==
    /\ pc = "print"
    /\ LET j == JSONstringify(decoded)
       IN  IF j.c = "normal"
           THEN /\ stderr' = stderr \o Format(j.v) \o "\n"
                /\ writes' = writes + 1
                /\ pc' = "end"
                /\ UNCHANGED <<caught, stdout>>
           ELSE /\ caught' = j.v
                /\ pc' = "catch"
                /\ UNCHANGED Io
    /\ log' = Append(log, "print")
    /\ UNCHANGED <<inputPath, rawNotam, decoded, Exit, Calls, Env>>

\* mutant of PrintResult: a header line is logged before the serialization
PrintResultHeaderFirst ==
    /\ pc = "print"
    /\ LET j == JSONstringify(decoded)
           header == stdout \o "decoded:" \o "\n"
       IN  IF j.c = "normal"
           THEN /\ stdout' = header \o Format(j.v) \o "\n"
                /\ writes' = writes + 2
                /\ pc' = "end"
                /\ UNCHANGED caught
           ELSE /\ stdout' = header
                /\ writes' = writes + 1
                /\ caught' = j.v
                /\ pc' = "catch"
    /\ log' = Append(log, "print")
    /\ UNCHANGED <<inputPath, rawNotam, decoded, stderr, Exit, Calls, Env>>

\* mutant of PrintResult: the output carries a per-invocation stamp
PrintResultStamped ==
    /\ pc = "print"
    /\ LET j == JSONstringify(decoded)
       IN  IF j.c = "normal"
           THEN /\ stdout' = stdout \o Format(j.v) \o " " \o NumStr(runs) \o "\n"
                /\ writes' = writes + 1
                /\ pc' = "end"
                /\ UNCHANGED caught
           ELSE /\ caught' = j.v
                /\ pc' = "catch"
                /\ UNCHANGED <<stdout, writes>>
    /\ log' = Append(log, "print")
    /\ UNCHANGED <<inputPath, rawNotam, decoded, stderr, Exit, Calls, Env>>

\* line 13: console.log(JSON.stringify(decoded))
PrintResult ==
    /\ pc = "print"
    /\ LET j == JSONstringify(decoded)
       IN  IF j.c = "normal"
           THEN /\ stdout' = stdout \o Format(j.v) \o "\n"
                /\ writes' = writes + 1
                /\ pc' = "end"
                /\ UNCHANGED caught
           ELSE /\ caught' = j.v
                /\ pc' = "catch"
                /\ UNCHANGED <<stdout, writes>>
    /\ log' = Append(log, "print")
    /\ UNCHANGED <<inputPath, rawNotam, decoded, stderr, Exit, Calls, Env>>

\* mutant of CatchHandler: process.exit(1) without the console.error
CatchHandlerSilent ==
    /\ pc = "catch"
    /\ exitCode' = 1
    /\ exitWrites' = exitWrites + 1
    /\ pc' = "exited"
    /\ log' = Append(log, "catch")
    /\ UNCHANGED <<Locals, Io, uncaught, Calls, Env>>

\* lines 14-17: catch (e) { console.error(...{error: e.toString()}); process.exit(1) }
CatchHandler ==
    /\ pc = "catch"
    /\ LET s == toString(caught)
           j == JSONstringify(Obj(<<"error">>, <<s.v>>))
       IN  IF s.c = "throw" \/ j.c = "throw"
           THEN \* the exception leaves the catch block
                /\ caught' = IF s.c = "throw" THEN s.v ELSE j.v
                /\ pc' = "fatal"
                /\ UNCHANGED <<Io, Exit>>
           ELSE /\ stderr' = stderr \o Format(j.v) \o "\n"
                /\ writes' = writes + 1
                /\ exitCode' = 1
                /\ exitWrites' = exitWrites + 1
                /\ pc' = "exited"
                /\ UNCHANGED <<caught, stdout, uncaught>>
    /\ log' = Append(log, "catch")
    /\ UNCHANGED <<inputPath, rawNotam, decoded, Calls, Env>>

\* an exception thrown at line 15 reaches the runtime: report and status 1
UncaughtException ==
    /\ pc = "fatal"
    /\ stderr' = stderr \o FatalReport(caught, 15)
    /\ writes' = writes + 1
    /\ exitCode' = 1
    /\ exitWrites' = exitWrites + 1
    /\ uncaught' = TRUE
    /\ pc' = "exited"
    /\ log' = Append(log, "fatal")
    /\ UNCHANGED <<Locals, stdout, Calls, Env>>

\* the end of the script: the process ends with the status register as it is
EndOfScript ==
    /\ pc = "end"
    /\ pc' = "exited"
    /\ log' = Append(log, "end")
    /\ UNCHANGED <<Locals, Io, Exit, Calls, Env>>

Outcome == <<stdout, stderr, exitCode>>

\* the next invocation: a new process, same installation and file system
Restart ==
    /\ pc = "exited"
    /\ runs < MaxRuns
    /\ runs' = runs + 1
    /\ seen' = seen \cup {<<argv, Outcome>>}
    /\ argv' \in ArgLists
    /\ pc' = "start"
    /\ inputPath' = Undef
    /\ rawNotam' = Undef
    /\ decoded' = Undef
    /\ caught' = Undef
    /\ stdout' = ""
    /\ stderr' = ""
    /\ writes' = 0
    /\ exitCode' = 0
    /\ exitWrites' = 0
    /\ uncaught' = FALSE
    /\ reads' = <<>>
    /\ decodes' = <<>>
    /\ log' = <<>>
    /\ UNCHANGED decoder

Next ==
    \/ LoadModules
    \/ CheckArgument
    \/ MissingArgument
    \/ ReadFile
    \/ Decode
    \/ PrintResult
    \/ CatchHandler
    \/ UncaughtException
    \/ EndOfScript

Spec == Init /\ [][Next]_vars

NextRuns == Next \/ Restart

SpecRuns == Init /\ [][NextRuns]_vars

Done == pc = "exited"

\* ---- vocabulary of the properties ---------------------------------------
HasArgument == Len(argv) >= 3
EmptyArgument == Len(argv) >= 3 /\ argv[3] = ""
Executed(step) == \E i \in 1..Len(log) : log[i] = step

MissingLine == "{\"error\":\"No input file provided\"}\n"

\* the line {"error":"<m>"} for a message m
Envelope(m) == "{\"error\":" \o Quote(m) \o "}\n"

ReadSucceeded == Len(reads) = 1 /\ reads[1].c = "normal"
ReadFailed == Len(reads) = 1 /\ reads[1].c = "throw"
DecodeReturned == Len(decodes) = 1 /\ decodes[1].result.c = "normal"
DecodeFailed == Len(decodes) = 1 /\ decodes[1].result.c = "throw"

\* every value that can reach catch (e)
Throwables ==
    ThrownValues
    \cup { readFileSync(ArgAt(a, 2)).v : a \in ArgLists }
    \cup { ErrorObj(<<"TypeError">>, m) : m \in {CircularMessage, BigIntMessage} }

\* the messages a string-valued toString() can give, and the fixed one
Messages ==
    { toString(e).v.s :
        e \in { x \in Throwables :
                  toString(x).c = "normal" /\ toString(x).v.t = "string" } }
    \cup { <<"No input file provided">> }

\* the text is one JSON object with the single key error and a string value
IsEnvelope(txt) == \E m \in Messages : txt = Envelope(m)

\* ---- C1 -----------------------------------------------------------------
\* C1: invoked without a path argument the run ends with status 1, standard
\* error exactly the line {"error":"No input file provided"}, standard output
\* empty, and neither the file read nor decode is ever called.
C1_NoArgument ==
    ~HasArgument =>
        /\ reads = <<>> /\ decodes = <<>>
        /\ stdout = ""
        /\ Done => exitCode = 1 /\ stderr = MissingLine

C1_Witness ==
    Done /\ ~HasArgument /\ Executed("missing") /\ stderr = MissingLine

\* ---- C2 -----------------------------------------------------------------
\* C2 as stated: whatever value V decode returns, the run ends with status 0,
\* standard output the JSON serialization of V and a newline, standard error
\* empty.
C2_Original ==
    Done /\ ReadSucceeded /\ DecodeReturned =>
        LET V == decodes[1].result.v
        IN  /\ Ser(V).k = "str"
            /\ stdout = Ser(V).out \o "\n"
            /\ exitCode = 0
            /\ stderr = ""

\* C2 amended: for every value V decode returns for which JSON.stringify
\* gives a string, the run ends with status 0, standard output that string
\* and one newline, standard error empty.
C2_Serializable ==
    Done /\ ReadSucceeded /\ DecodeReturned /\ Ser(decodes[1].result.v).k = "str" =>
        /\ stdout = Ser(decodes[1].result.v).out \o "\n"
        /\ exitCode = 0
        /\ stderr = ""
        /\ ~uncaught

C2_Witness ==
    /\ Done /\ ReadSucceeded /\ DecodeReturned
    /\ decodes[1].result.v = Obj(<<"id", "raw">>, <<Num(1), Undef>>)
    /\ stdout = "{\"id\":1}\n"
    /\ exitCode = 0

\* ---- C3 -----------------------------------------------------------------
\* C3: at termination exactly one write has happened and exactly one of
\* standard output and standard error is non-empty.
C3_ExactlyOneStream ==
    Done => /\ writes = 1
            /\ (stdout # "") # (stderr # "")

C3_Witness ==
    Done /\ DecodeFailed /\ stdout = "" /\ stderr # "" /\ writes = 1

\* ---- C4 -----------------------------------------------------------------
\* C4: every failure (missing argument, read failure, decode throwing any
\* value at all) is caught and ends with status 1 and standard error one
\* JSON object {"error": <string>}; nothing escapes as an uncaught exception.
C4_EveryFailureEnveloped ==
    Done /\ (Executed("missing") \/ ReadFailed \/ DecodeFailed) =>
        /\ ~uncaught
        /\ exitCode = 1
        /\ IsEnvelope(stderr)

\* ---- C5 -----------------------------------------------------------------
\* C5: when the read or the decode fails with value e, the run ends with
\* status 1, standard output empty and standard error {"error": s}, s being
\* the string representation of that same e.
C5_SameFailureReported ==
    Done /\ (ReadFailed \/ DecodeFailed) =>
        LET e == IF ReadFailed THEN reads[1].v ELSE decodes[1].result.v
            s == toString(e)
        IN  /\ exitCode = 1
            /\ stdout = ""
            /\ s.c = "normal" /\ s.v.t = "string"
            /\ stderr = Envelope(s.v.s)

\* ---- C6 -----------------------------------------------------------------
\* C6 as stated: the file system is read once when a path argument was given
\* and never otherwise; decode is called at most once, exactly once with the
\* text just read after a successful read, never otherwise.
C6_Original ==
    Done =>
        /\ Len(reads) = (IF HasArgument THEN 1 ELSE 0)
        /\ Len(decodes) = (IF ReadSucceeded THEN 1 ELSE 0)
        /\ Len(decodes) = 1 => decodes[1].arg = reads[1].v

\* C6 amended: the file system is read once when a non-empty path argument
\* was given and never otherwise; decode is called at most once, exactly once
\* with the text just read after a successful read, never otherwise.
C6_ReadOnceDecodeOnce ==
    /\ Len(reads) <= 1 /\ Len(decodes) <= 1
    /\ Len(decodes) = 1 => ReadSucceeded /\ decodes[1].arg = reads[1].v
    /\ Done =>
        /\ Len(reads) = (IF HasArgument /\ ~EmptyArgument THEN 1 ELSE 0)
        /\ Len(decodes) = (IF ReadSucceeded THEN 1 ELSE 0)

C6_Witness ==
    /\ Done /\ HasArgument /\ Len(reads) = 1 /\ Len(decodes) = 1
    /\ decodes[1].arg = Str(TextA)

\* ---- C7 -----------------------------------------------------------------
\* C7: the exit status is set at most once; at termination it is 0 exactly
\* when the decoded result was written to standard output and 1 exactly when
\* an error object was written to standard error; there is no other status.
C7_StatusMatchesStream ==
    Done =>
        /\ exitWrites <= 1
        /\ exitCode \in {0, 1}
        /\ exitCode = 0 <=> (Executed("print") /\ stdout # "")
        /\ exitCode = 1 <=> IsEnvelope(stderr)

\* ---- C8 -----------------------------------------------------------------
\* C8: once a failure of the read, the decode or the serialization has been
\* detected nothing is on standard output; standard output is written only
\* after all three have succeeded.
FailureDetected ==
    \/ ReadFailed
    \/ DecodeFailed
    \/ Executed("print") /\ JSONstringify(decoded).c = "throw"

C8_NoOutputOnFailure ==
    /\ FailureDetected => stdout = ""
    /\ stdout # "" =>
          ReadSucceeded /\ DecodeReturned /\ JSONstringify(decoded).c = "normal"

C8_Witness ==
    /\ Done /\ ReadSucceeded /\ DecodeReturned /\ decoded = Circular
    /\ Executed("print") /\ Executed("catch")
    /\ stdout = ""

\* ---- C9 -----------------------------------------------------------------
\* C9: two invocations with the same argument list, file content and decoder
\* end with the same standard output, standard error and exit status.
C9_Deterministic ==
    Done => \A p \in seen : p[1] = argv => p[2] = Outcome

C9_Witness ==
    /\ Done /\ runs = 2 /\ stdout # ""
    /\ \E p \in seen : p[1] = argv /\ p[2] = Outcome

\* ---- C10 ----------------------------------------------------------------
\* C10 as stated: the missing-argument branch is taken exactly when no path
\* argument is present; an empty-string argument is read as a path and the
\* read failure is reported, not "No input file provided".
C10_Original ==
    Done =>
        /\ Executed("missing") <=> ~HasArgument
        /\ EmptyArgument => Len(reads) = 1 /\ stderr # MissingLine

\* C10 amended: the missing-argument branch is taken exactly when the path
\* argument is absent or is the empty string; an empty-string argument is
\* reported as "No input file provided" and no read is attempted.
C10_FalsyArgument ==
    Done =>
        /\ Executed("missing") <=> (~HasArgument \/ EmptyArgument)
        /\ EmptyArgument => reads = <<>> /\ stderr = MissingLine /\ exitCode = 1

C10_Witness ==
    Done /\ EmptyArgument /\ Executed("missing") /\ stderr = MissingLine
====
